---- MODULE Spec2Model ----
(***************************************************************************)
(* Model of the guest supervision code of MemoryAnalysis (Cuckoo fork):    *)
(*   lib/cuckoo/common/utils.py  _ResumableTimer  (pausable watchdog)      *)
(*   lib/cuckoo/core/guest.py    GuestManager.wait, take_mem_dump,         *)
(*                               wait_for_completion                       *)
(*                                                                         *)
(* Time is discrete.  One unit of `now` is one tick of the watchdog, i.e.  *)
(* one time.sleep(0.005) of _ResumableTimer.run.  A sleeping thread wakes  *)
(* exactly when its sleep has elapsed; statements other than sleeps and    *)
(* calls to collaborators (RPC, memory dump) take no time, but the threads *)
(* interleave freely at every instant.                                     *)
(***************************************************************************)
EXTENDS Integers, Sequences, FiniteSets, TLC

(* ---------------------------- bounds ----------------------------------- *)
MaxNow      == 7    \* the wall clock stops advancing here
MaxBudget   == 3    \* largest watchdog budget (ticks) of the timer harness
MaxCalls    == 4    \* API calls the timer harness makes on one timer
SecTicks    == 2    \* watchdog ticks per time.sleep(1) of the polling loops
MaxTimeout  == 2    \* largest critical timeout (seconds) of a run
MaxInterval == 2    \* largest time_to_sleep_before_dump_in_seconds of a run
MaxIndex    == 11   \* no snapshot is started once this index is in the store
MaxSnaps    == 3    \* take_mem_dump calls made by the store harness
LongNow     == 16   \* ticks of wall-clock time observed of a long run
LongInterval == 3   \* largest time_to_sleep_before_dump_in_seconds of a long run
MaxDumps    == 2    \* largest max_number_of_dumps of a run
\* ticks after which a watchdog that is never paused has expired and the
\* sleep of the supervisor's current iteration has ended
FairNow == SecTicks * (MaxTimeout + 1)

VARIABLES
  now,          \* wall clock, in watchdog ticks
  \* ---- _ResumableTimer (utils.py 173-210) ----
  interval,     \* self.interval, in ticks
  finished,     \* self.finished (Event)
  stopev,       \* self.stopev (Event)
  t,            \* local t of run(), in ticks
  tpc,          \* position of the timer thread inside run()
  twake,        \* end of the timer thread's current time.sleep
  fired,        \* number of invocations of self.function (die)
  abort,        \* the Event set by die() (guest.py 206-210)
  \* ---- observations of the timer harness (not program state) ----
  hist,         \* API calls made so far, with t at the time of each call
  pausedTicks,  \* wall-clock ticks that passed while stopev was set
  nPause,       \* number of pause periods begun (stop() on a running timer)
  cancelled,    \* cancel() has returned
  cancelEarly,  \* cancel() was called while t < interval
  \* ---- GuestManager.wait_for_completion (guest.py 199-263) ----
  timeout,      \* self.timeout = cfg.timeouts.critical, in seconds
  time_based,   \* mem_analysis_conf.basic.time_based
  time_to_sleep,\* time_to_sleep_before_dump_in_seconds
  number_of_dumps, \* local number_of_dumps = basic.max_number_of_dumps
  pc,           \* position of the supervisor inside wait_for_completion
  swake,        \* end of the supervisor's current time.sleep(1)
  sec_counter,  \* local sec_counter
  status,       \* local status: last value returned by get_status
  error,        \* local error: message carried by the failure error
  site,         \* which take_mem_dump call of wait_for_completion is running
  outcome,      \* what reached the caller of wait_for_completion
  \* ---- GuestManager.take_mem_dump (guest.py 185-197), per caller ----
  dumps,        \* the dumps directory: name -> files of that directory
  tdpc,         \* position of each caller inside take_mem_dump
  listdir,      \* local listdir (sorted listing)
  td_i,         \* local i
  json_obj,     \* argument json_obj
  \* ---- observation of the snapshot store (not program state) ----
  calls,        \* take_mem_dump calls so far: caller, trigger, index, result
  \* ---- GuestManager.wait (guest.py 50-90) ----
  w_pc,         \* position inside wait
  w_abort,      \* the Event set by die() (guest.py 59-63)
  w_tpc,        \* state of the threading.Timer thread
  w_finished,   \* Timer.finished
  w_twake,      \* end of the Timer's wait
  w_swake       \* end of the current time.sleep(1) of wait

timerVars == <<interval, finished, stopev, t, tpc, twake, fired, abort>>
obsVars   == <<hist, pausedTicks, nPause, cancelled, cancelEarly>>
cfgVars   == <<timeout, time_based, time_to_sleep, number_of_dumps>>
supVars   == <<cfgVars, pc, swake, sec_counter, status, error, site, outcome>>
storeVars == <<dumps, tdpc, listdir, td_i, json_obj, calls>>
waitVars  == <<w_pc, w_abort, w_tpc, w_finished, w_twake, w_swake>>
vars      == <<now, timerVars, obsVars, supVars, storeVars, waitVars>>

\* everything the timer thread never touches
notTimer  == <<obsVars, supVars, storeVars, waitVars>>

(* ===================== names and values ================================= *)

Procs == {1, 2}     \* analyses that may share a dumps directory; 1 is the
                    \* supervisor modelled by wait_for_completion

\* A directory name is a sequence of characters; a character is a digit
\* 0..9 or NonDigit, which stands for any other character.
NonDigit == 10

RECURSIVE str(_)
\* Python str(i) of a non-negative int: decimal digits, no padding
str(i) == IF i < 10 THEN <<i>> ELSE Append(str(i \div 10), i % 10)

RECURSIVE int(_)
\* Python int(s) of a string of digits (leading zeros are accepted)
int(s) == IF Len(s) = 1 THEN s[1]
          ELSE 10 * int(SubSeq(s, 1, Len(s) - 1)) + s[Len(s)]

\* int(s) raises ValueError
IsNumeric(s) == Len(s) >= 1 /\ \A k \in 1..Len(s) : s[k] \in 0..9

\* the json_obj of a caller that is not inside take_mem_dump
NoJson == [trigger |-> [name |-> "", args |-> {}], time |-> <<>>]

(* ===================== _ResumableTimer.run ============================== *)

\* utils.py 202-203: loop test, break when finished or the budget is used up
run_check ==
  /\ tpc = "check"
  /\ tpc' = IF finished \/ t >= interval THEN "chkfin" ELSE "chkstop"
  /\ UNCHANGED <<now, notTimer, interval, finished, stopev, t, twake, fired, abort>>

\* utils.py 204-206: test stopev, then sleep one tick (inside the pause loop
\* when stopev is set, as a counted tick otherwise)
run_chkstop ==
  /\ tpc = "chkstop"
  /\ tpc' = IF stopev THEN "psleep" ELSE "sleep"
  /\ twake' = now + 1
  /\ UNCHANGED <<now, notTimer, interval, finished, stopev, t, fired, abort>>

\* variant of run_pwake: the sleep of the pause loop is counted as elapsed
run_pwake_counted ==
  /\ tpc = "psleep"
  /\ now >= twake
  /\ t' = t + 1
  /\ tpc' = "chkstop"
  /\ UNCHANGED <<now, notTimer, interval, finished, stopev, twake, fired, abort>>

\* utils.py 205: the sleep of the pause loop ends, stopev is tested again
run_pwake ==
  /\ tpc = "psleep"
  /\ now >= twake
  /\ tpc' = "chkstop"
  /\ UNCHANGED <<now, notTimer, interval, finished, stopev, t, twake, fired, abort>>

\* utils.py 206-207: the counted sleep ends, t += 0.005
run_wake ==
  /\ tpc = "sleep"
  /\ now >= twake
  /\ t' = t + 1
  /\ tpc' = "check"
  /\ UNCHANGED <<now, notTimer, interval, finished, stopev, twake, fired, abort>>

\* variant of run_chkfin: the callback is invoked without testing finished
run_chkfin_unguarded ==
  /\ tpc = "chkfin"
  /\ tpc' = "call"
  /\ UNCHANGED <<now, notTimer, interval, finished, stopev, t, twake, fired, abort>>

\* utils.py 208: if not self.finished.is_set()
run_chkfin ==
  /\ tpc = "chkfin"
  /\ tpc' = IF ~finished THEN "call" ELSE "setfin"
  /\ UNCHANGED <<now, notTimer, interval, finished, stopev, t, twake, fired, abort>>

\* variant of run_call: the callback is invoked but does not set abort
run_call_silent ==
  /\ tpc = "call"
  /\ fired' = fired + 1
  /\ tpc' = "setfin"
  /\ UNCHANGED <<now, notTimer, interval, finished, stopev, t, twake, abort>>

\* variant of run_call: the callback is invoked inside the counting loop
run_call_in_loop ==
  /\ tpc = "call"
  /\ fired' = fired + 1
  /\ abort' = TRUE
  /\ tpc' = "check"
  /\ UNCHANGED <<now, notTimer, interval, finished, stopev, t, twake>>

\* utils.py 209: self.function(), which is die(): abort.set()
run_call ==
  /\ tpc = "call"
  /\ fired' = fired + 1
  /\ abort' = TRUE
  /\ tpc' = "setfin"
  /\ UNCHANGED <<now, notTimer, interval, finished, stopev, t, twake>>

\* utils.py 210: self.finished.set(), the thread ends
run_setfin ==
  /\ tpc = "setfin"
  /\ finished' = TRUE
  /\ tpc' = "end"
  /\ UNCHANGED <<now, notTimer, interval, stopev, t, twake, fired, abort>>

\* the timer thread is at a statement that takes no time
TimerBusy == tpc \in {"check", "chkstop", "chkfin", "call", "setfin"}
\* the timer thread is inside a sleep that has not elapsed
TimerAsleep == tpc \in {"sleep", "psleep"} /\ now < twake
TimerLetsTimePass == tpc \in {"none", "end"} \/ TimerAsleep

(* ===================== _ResumableTimer methods ========================== *)

\* utils.py 191-192: self.stopev.set()
stop == stopev' = TRUE

\* variant of resume: the pause flag is toggled instead of cleared
resume_toggle == stopev' = ~stopev

\* utils.py 193-194: self.stopev.clear()
resume == stopev' = FALSE

\* utils.py 195-197: self.finished.set()
cancel == finished' = TRUE

(* ===================== GuestManager.take_mem_dump ======================= *)

\* a directory without entries
EmptyDir == [n \in {} |-> 0]
\* the files of a snapshot directory right after os.mkdir
NewDumpDir == [memory_dmp |-> FALSE, info_json |-> <<>>]

RECURSIVE LexLess(_, _)
\* Python's < on two strings
LexLess(a, b) ==
  IF b = <<>> THEN FALSE
  ELSE IF a = <<>> THEN TRUE
  ELSE IF a[1] # b[1] THEN a[1] < b[1]
  ELSE LexLess(Tail(a), Tail(b))

RECURSIVE SortedByStr(_)
\* variant of SortedByInt: sorted(names, reverse=True) without key=int
SortedByStr(S) ==
  IF S = {} THEN <<>>
  ELSE LET m == CHOOSE x \in S : \A y \in S : ~LexLess(x, y)
       IN  <<m>> \o SortedByStr(S \ {m})

RECURSIVE SortedAscending(_)
\* variant of SortedByInt: sorted(names, key=int) without reverse=True
SortedAscending(S) ==
  IF S = {} THEN <<>>
  ELSE LET m == CHOOSE x \in S : \A y \in S : int(x) <= int(y)
       IN  <<m>> \o SortedAscending(S \ {m})

RECURSIVE SortedByInt(_)
\* guest.py 189: sorted(names, key=int, reverse=True)
SortedByInt(S) ==
  IF S = {} THEN <<>>
  ELSE LET m == CHOOSE x \in S : \A y \in S : int(x) >= int(y)
       IN  <<m>> \o SortedByInt(S \ {m})

\* the locals of take_mem_dump are gone once it has returned or raised
td_exit(p) ==
  /\ tdpc[p] \in {"ret", "raised"}
  /\ tdpc' = [tdpc EXCEPT ![p] = "idle"]
  /\ listdir' = [listdir EXCEPT ![p] = <<>>]
  /\ td_i' = [td_i EXCEPT ![p] = 0]
  /\ json_obj' = [json_obj EXCEPT ![p] = NoJson]
  /\ UNCHANGED <<dumps, calls>>

\* the entry of the call that caller p is in
CurCall(p) == CHOOSE k \in 1..Len(calls) : calls[k].p = p /\ calls[k].res = "pending"

\* take_mem_dump(dumps_dir, machine, machinery, jo) is entered by caller p
take_mem_dump(p, jo) ==
  /\ tdpc[p] = "idle"
  /\ tdpc' = [tdpc EXCEPT ![p] = "list"]
  /\ json_obj' = [json_obj EXCEPT ![p] = jo]
  /\ calls' = Append(calls, [p |-> p, trigger |-> jo.trigger.name, i |-> 0,
                              res |-> "pending"])
  /\ UNCHANGED <<dumps, listdir, td_i>>

\* what take_mem_dump leaves alone besides the store
tdFrame == <<now, timerVars, obsVars, supVars, waitVars>>

\* guest.py 189-193: list the directory, sort by int, i = first + 1 or 1;
\* os.listdir may raise OSError, int() raises ValueError on another name
td_list(p) ==
  /\ tdpc[p] = "list"
  /\ \/ /\ \A n \in DOMAIN dumps : IsNumeric(n)
        /\ LET l == SortedByInt(DOMAIN dumps)
           IN  /\ listdir' = [listdir EXCEPT ![p] = l]
               /\ td_i' = [td_i EXCEPT ![p] = IF l = <<>> THEN 1 ELSE int(l[1]) + 1]
        /\ tdpc' = [tdpc EXCEPT ![p] = "mkdir"]
        /\ UNCHANGED calls
     \/ /\ tdpc' = [tdpc EXCEPT ![p] = "raised"]
        /\ calls' = [calls EXCEPT ![CurCall(p)].res = "raised"]
        /\ UNCHANGED <<listdir, td_i>>
  /\ UNCHANGED <<dumps, json_obj, tdFrame>>

\* variant of td_mkdir: an existing directory is accepted (as create_dir_safe
\* does) instead of raising
td_mkdir_exist_ok(p) ==
  /\ tdpc[p] = "mkdir"
  /\ \/ /\ dumps' = [n \in DOMAIN dumps \cup {str(td_i[p])} |->
                       IF n \in DOMAIN dumps THEN dumps[n] ELSE NewDumpDir]
        /\ tdpc' = [tdpc EXCEPT ![p] = "dump"]
        /\ calls' = [calls EXCEPT ![CurCall(p)].i = td_i[p]]
     \/ /\ tdpc' = [tdpc EXCEPT ![p] = "raised"]
        /\ calls' = [calls EXCEPT ![CurCall(p)].res = "raised"]
        /\ UNCHANGED dumps
  /\ UNCHANGED <<listdir, td_i, json_obj, tdFrame>>

\* guest.py 194-195: os.mkdir(dumps_dir/str(i)); raises OSError when the
\* name exists or the directory cannot be created
td_mkdir(p) ==
  /\ tdpc[p] = "mkdir"
  /\ \/ /\ str(td_i[p]) \notin DOMAIN dumps
        /\ dumps' = [n \in DOMAIN dumps \cup {str(td_i[p])} |->
                       IF n = str(td_i[p]) THEN NewDumpDir ELSE dumps[n]]
        /\ tdpc' = [tdpc EXCEPT ![p] = "dump"]
        /\ calls' = [calls EXCEPT ![CurCall(p)].i = td_i[p]]
     \/ /\ tdpc' = [tdpc EXCEPT ![p] = "raised"]
        /\ calls' = [calls EXCEPT ![CurCall(p)].res = "raised"]
        /\ UNCHANGED dumps
  /\ UNCHANGED <<listdir, td_i, json_obj, tdFrame>>

\* guest.py 196: machinery.dump_memory(label, dump_dir/memory.dmp) returns
\* after any amount of time, or raises
td_dump(p) ==
  /\ tdpc[p] = "dump"
  /\ \/ /\ str(td_i[p]) \in DOMAIN dumps
        /\ dumps' = [dumps EXCEPT ![str(td_i[p])].memory_dmp = TRUE]
        /\ tdpc' = [tdpc EXCEPT ![p] = "json"]
        /\ UNCHANGED calls
     \/ /\ tdpc' = [tdpc EXCEPT ![p] = "raised"]
        /\ calls' = [calls EXCEPT ![CurCall(p)].res = "raised"]
        /\ UNCHANGED dumps
  /\ UNCHANGED <<listdir, td_i, json_obj, tdFrame>>

\* guest.py 197: json.dump(json_obj, file(dump_dir/info.json, "wb")), then
\* return; file() raises IOError when the file cannot be created
td_json(p) ==
  /\ tdpc[p] = "json"
  /\ \/ /\ str(td_i[p]) \in DOMAIN dumps
        /\ dumps' = [dumps EXCEPT ![str(td_i[p])].info_json = <<json_obj[p]>>]
        /\ tdpc' = [tdpc EXCEPT ![p] = "ret"]
        /\ calls' = [calls EXCEPT ![CurCall(p)].res = "ok"]
     \/ /\ tdpc' = [tdpc EXCEPT ![p] = "raised"]
        /\ calls' = [calls EXCEPT ![CurCall(p)].res = "raised"]
        /\ UNCHANGED dumps
  /\ UNCHANGED <<listdir, td_i, json_obj, tdFrame>>

(* ===================== wall clock ======================================= *)

\* a thread of wait_for_completion / take_mem_dump lets time pass while it
\* sleeps or waits for a collaborator (RPC to the guest, memory dump)
SupLetsTimePass ==
  \/ pc \in {"idle", "rpc_status", "rpc_error", "done"}
  \/ pc = "sleep" /\ now < swake
  \/ pc = "dump" /\ tdpc[1] = "dump"

\* the same for wait and its threading.Timer
WaitLetsTimePass ==
  /\ \/ w_pc \in {"idle", "rpc_status", "returned", "raised"}
     \/ w_pc = "sleep" /\ now < w_swake
  /\ \/ w_tpc \in {"none", "end"}
     \/ w_tpc = "wait" /\ now < w_twake

\* one tick of wall-clock time passes
Tick ==
  /\ now < MaxNow
  /\ TimerLetsTimePass /\ SupLetsTimePass /\ WaitLetsTimePass
  /\ now' = now + 1
  /\ pausedTicks' = IF stopev THEN pausedTicks + 1 ELSE pausedTicks
  /\ UNCHANGED <<timerVars, hist, nPause, cancelled, cancelEarly,
                 supVars, storeVars, waitVars>>

\* one tick of wall-clock time in a run observed up to LongNow
TickLong ==
  /\ now < LongNow
  /\ TimerLetsTimePass /\ SupLetsTimePass /\ WaitLetsTimePass
  /\ now' = now + 1
  /\ pausedTicks' = IF stopev THEN pausedTicks + 1 ELSE pausedTicks
  /\ UNCHANGED <<timerVars, hist, nPause, cancelled, cancelEarly,
                 supVars, storeVars, waitVars>>

\* one tick of wall-clock time in a run observed up to FairNow
TickFair ==
  /\ now < FairNow
  /\ TimerLetsTimePass /\ SupLetsTimePass /\ WaitLetsTimePass
  /\ now' = now + 1
  /\ pausedTicks' = IF stopev THEN pausedTicks + 1 ELSE pausedTicks
  /\ UNCHANGED <<timerVars, hist, nPause, cancelled, cancelEarly,
                 supVars, storeVars, waitVars>>

\* time that passes after wait_for_completion has ended and the observed
\* window is over: the clock reading stays at FairNow, the sleep of the
\* watchdog thread elapses
TickBeyond ==
  /\ now = FairNow /\ pc = "done"
  /\ TimerAsleep
  /\ twake' = now
  /\ UNCHANGED <<now, interval, finished, stopev, t, tpc, fired, abort,
                 notTimer>>

(* ===================== timer harness ==================================== *)
(* One timer, started once, driven by a caller that calls stop(),          *)
(* resume() and cancel() in any order at any moment.                       *)

\* Thread.start() of a constructed timer: run() begins with t = 0 (line 200)
TimerStart ==
  /\ tpc = "new"
  /\ tpc' = "check"
  /\ t' = 0
  /\ UNCHANGED <<now, interval, finished, stopev, twake, fired, abort, notTimer>>

CanCall == tpc \notin {"none", "new"} /\ Len(hist) < MaxCalls

CallStop ==
  /\ CanCall
  /\ stop
  /\ hist' = Append(hist, [op |-> "stop", t |-> t])
  /\ nPause' = IF stopev THEN nPause ELSE nPause + 1
  /\ UNCHANGED <<now, interval, finished, t, tpc, twake, fired, abort,
                 pausedTicks, cancelled, cancelEarly,
                 supVars, storeVars, waitVars>>

CallResume ==
  /\ CanCall
  /\ resume
  /\ hist' = Append(hist, [op |-> "resume", t |-> t])
  /\ UNCHANGED <<now, interval, finished, t, tpc, twake, fired, abort,
                 pausedTicks, nPause, cancelled, cancelEarly,
                 supVars, storeVars, waitVars>>

CallCancel ==
  /\ CanCall
  /\ cancel
  /\ hist' = Append(hist, [op |-> "cancel", t |-> t])
  /\ cancelled' = TRUE
  /\ cancelEarly' = (cancelEarly \/ t < interval)
  /\ UNCHANGED <<now, interval, stopev, t, tpc, twake, fired, abort,
                 pausedTicks, nPause,
                 supVars, storeVars, waitVars>>

\* no analysis, no snapshot and no wait is running
InitIdle ==
  /\ timeout = 1 /\ time_based = FALSE /\ time_to_sleep = 1
  /\ number_of_dumps = 1
  /\ pc = "idle" /\ swake = 0 /\ sec_counter = 0
  /\ status = "none" /\ error = "" /\ site = "none" /\ outcome = "none"
  /\ dumps = EmptyDir
  /\ tdpc = [p \in Procs |-> "idle"]
  /\ listdir = [p \in Procs |-> <<>>]
  /\ td_i = [p \in Procs |-> 0]
  /\ json_obj = [p \in Procs |-> NoJson]
  /\ calls = <<>>
  /\ w_pc = "idle" /\ w_abort = FALSE /\ w_tpc = "none"
  /\ w_finished = FALSE /\ w_twake = 0 /\ w_swake = 0

InitObs ==
  /\ hist = <<>>
  /\ pausedTicks = 0
  /\ nPause = 0
  /\ cancelled = FALSE
  /\ cancelEarly = FALSE

\* _ResumableTimer.__init__, utils.py 182-189
TimerNew(iv) ==
  /\ interval = iv
  /\ finished = FALSE
  /\ stopev = FALSE
  /\ t = 0
  /\ twake = 0
  /\ fired = 0
  /\ abort = FALSE

InitTimer ==
  /\ now = 0
  /\ \E iv \in 1..MaxBudget : TimerNew(iv)
  /\ tpc = "new"
  /\ InitObs
  /\ InitIdle

NextTimer ==
  \/ TimerStart
  \/ run_check \/ run_chkstop \/ run_pwake \/ run_wake
  \/ run_chkfin \/ run_call \/ run_setfin
  \/ CallStop \/ CallResume \/ CallCancel
  \/ Tick

SpecTimer == InitTimer /\ [][NextTimer]_vars

(* ===================== GuestManager.wait_for_completion ================= *)

\* values of get_status (lib.cuckoo.common.constants CUCKOO_GUEST_*)
Statuses == {"init", "running", "completed", "failed"}
\* values of get_error: nothing, or a message
Errors == {"", "agent crashed"}

\* guest.py 225
EndInfoAt(sc) == [trigger |-> [name |-> "End", args |-> {}], time |-> <<str(sc)>>]
\* guest.py 252, 262
EndInfo == [trigger |-> [name |-> "End", args |-> {}], time |-> <<>>]
\* guest.py 235
TimeInfo(k) == [trigger |-> [name |-> "Time", args |-> {<<"interval", k>>}],
                time |-> <<>>]

\* what the supervisor's own statements leave alone
wfcFrame == <<now, obsVars, waitVars, cfgVars>>

\* guest.py 203-222: abort event, watchdog created and started, counter 0
wfc_init ==
  /\ pc = "init"
  /\ abort' = FALSE
  /\ interval' = timeout * SecTicks
  /\ finished' = FALSE /\ stopev' = FALSE
  /\ t' = 0 /\ fired' = 0 /\ twake' = now
  /\ tpc' = "check"
  /\ sec_counter' = 0
  /\ pc' = "loop"
  /\ UNCHANGED <<swake, status, error, site, outcome, storeVars, wfcFrame>>

\* guest.py 224-231: abort set -> terminal dump with the counter as "time";
\* otherwise (the STOP_EVENT test is on a fresh, unset Event) sleep(1)
wfc_loop ==
  /\ pc = "loop"
  /\ IF abort
       THEN /\ take_mem_dump(1, EndInfoAt(sec_counter))
            /\ pc' = "dump" /\ site' = "timeout"
            /\ UNCHANGED swake
       ELSE /\ pc' = "sleep" /\ swake' = now + SecTicks
            /\ UNCHANGED <<site, storeVars>>
  /\ UNCHANGED <<timerVars, sec_counter, status, error, outcome, wfcFrame>>

\* variant of wfc_wake: no periodic snapshot once number_of_dumps snapshots
\* were taken
wfc_wake_limited ==
  /\ pc = "sleep"
  /\ now >= swake
  /\ sec_counter' = sec_counter + 1
  /\ pc' = IF /\ time_based /\ sec_counter' % time_to_sleep = 0
               /\ Len(calls) < number_of_dumps
            THEN "stop" ELSE "query"
  /\ UNCHANGED <<timerVars, swake, status, error, site, outcome, storeVars,
                 wfcFrame>>

\* variant of wfc_wake: the cadence test is made on the watchdog's elapsed
\* time, in seconds
wfc_wake_by_timer ==
  /\ pc = "sleep"
  /\ now >= swake
  /\ sec_counter' = sec_counter + 1
  /\ pc' = IF time_based /\ (t \div SecTicks) % time_to_sleep = 0
            THEN "stop" ELSE "query"
  /\ UNCHANGED <<timerVars, swake, status, error, site, outcome, storeVars,
                 wfcFrame>>

\* variant of wfc_wake: the cadence test is made on the counter before its
\* increment
wfc_wake_test_first ==
  /\ pc = "sleep"
  /\ now >= swake
  /\ sec_counter' = sec_counter + 1
  /\ pc' = IF time_based /\ sec_counter % time_to_sleep = 0
            THEN "stop" ELSE "query"
  /\ UNCHANGED <<timerVars, swake, status, error, site, outcome, storeVars,
                 wfcFrame>>

\* guest.py 231-233: the sleep ends, sec_counter += 1, periodic dump due?
wfc_wake ==
  /\ pc = "sleep"
  /\ now >= swake
  /\ sec_counter' = sec_counter + 1
  /\ pc' = IF time_based /\ sec_counter' % time_to_sleep = 0
            THEN "stop" ELSE "query"
  /\ UNCHANGED <<timerVars, swake, status, error, site, outcome, storeVars,
                 wfcFrame>>

\* guest.py 234-236: pause the watchdog, take the periodic dump
wfc_stop ==
  /\ pc = "stop"
  /\ stop
  /\ take_mem_dump(1, TimeInfo(time_to_sleep))
  /\ pc' = "dump" /\ site' = "periodic"
  /\ UNCHANGED <<interval, finished, t, tpc, twake, fired, abort,
                 swake, sec_counter, status, error, outcome, wfcFrame>>

\* take_mem_dump returned to wait_for_completion: guest.py 228 (raise the
\* timeout error), 237 (next statement), 255 (raise the failure error),
\* 263 (return)
wfc_dumped ==
  /\ pc = "dump"
  /\ tdpc[1] = "ret"
  /\ td_exit(1)
  /\ pc' = IF site = "periodic" THEN "resume" ELSE "done"
  /\ outcome' = CASE site = "periodic"  -> outcome
                   [] site = "timeout"   -> "timeout_error"
                   [] site = "failed"    -> "failed_error"
                   [] site = "completed" -> "returned"
  /\ UNCHANGED <<timerVars, swake, sec_counter, status, error, site, wfcFrame>>

\* variant of wfc_dump_raised: the error of take_mem_dump is caught and the
\* loop goes on with the status query
wfc_dump_swallowed ==
  /\ pc = "dump"
  /\ tdpc[1] = "raised"
  /\ td_exit(1)
  /\ pc' = "query"
  /\ UNCHANGED <<timerVars, swake, sec_counter, status, error, site, outcome,
                 wfcFrame>>

\* take_mem_dump raised: nothing in wait_for_completion catches it
wfc_dump_raised ==
  /\ pc = "dump"
  /\ tdpc[1] = "raised"
  /\ td_exit(1)
  /\ pc' = "done"
  /\ outcome' = "snapshot_error"
  /\ UNCHANGED <<timerVars, swake, sec_counter, status, error, site, wfcFrame>>

\* guest.py 237: resumableTimer.resume()
wfc_resume ==
  /\ pc = "resume"
  /\ resume
  /\ pc' = "query"
  /\ UNCHANGED <<interval, finished, t, tpc, twake, fired, abort,
                 swake, sec_counter, status, error, site, outcome, storeVars,
                 wfcFrame>>

\* guest.py 239: self.server.get_status() is sent
wfc_query ==
  /\ pc = "query"
  /\ pc' = "rpc_status"
  /\ UNCHANGED <<timerVars, swake, sec_counter, status, error, site, outcome,
                 storeVars, wfcFrame>>

\* guest.py 240-242: get_status raised, continue
wfc_status_raised ==
  /\ pc = "rpc_status"
  /\ pc' = "loop"
  /\ UNCHANGED <<timerVars, swake, sec_counter, status, error, site, outcome,
                 storeVars, wfcFrame>>

\* guest.py 239, 245-262: get_status returned st
wfc_status ==
  /\ pc = "rpc_status"
  /\ \E st \in Statuses :
       /\ status' = st
       /\ CASE st = "completed" ->
                 /\ take_mem_dump(1, EndInfo)
                 /\ pc' = "dump" /\ site' = "completed"
            [] st = "failed" ->
                 /\ pc' = "rpc_error"
                 /\ UNCHANGED <<site, storeVars>>
            [] OTHER ->
                 /\ pc' = "loop"
                 /\ UNCHANGED <<site, storeVars>>
  /\ UNCHANGED <<timerVars, swake, sec_counter, error, outcome, wfcFrame>>

\* guest.py 249: get_error raised; it is outside the try of line 238
wfc_error_raised ==
  /\ pc = "rpc_error"
  /\ pc' = "done"
  /\ outcome' = "rpc_error"
  /\ UNCHANGED <<timerVars, swake, sec_counter, status, error, site,
                 storeVars, wfcFrame>>

\* guest.py 249-254: get_error returned e; terminal dump
wfc_error ==
  /\ pc = "rpc_error"
  /\ \E e \in Errors :
       error' = IF e = "" THEN "unknown error" ELSE e
  /\ take_mem_dump(1, EndInfo)
  /\ pc' = "dump" /\ site' = "failed"
  /\ UNCHANGED <<timerVars, swake, sec_counter, status, outcome, wfcFrame>>

\* directories that may already be in the dumps directory of an analysis
SupInitDirs == {{}, {str(1)}}

Init ==
  /\ now = 0
  /\ TimerNew(0) /\ tpc = "none"
  /\ InitObs
  /\ timeout \in 1..MaxTimeout
  /\ time_based \in BOOLEAN
  /\ time_to_sleep \in 1..MaxInterval
  /\ number_of_dumps \in 1..MaxDumps
  /\ pc = "init" /\ swake = 0 /\ sec_counter = 0
  /\ status = "none" /\ error = "" /\ site = "none" /\ outcome = "none"
  /\ \E D \in SupInitDirs :
       dumps = [n \in D |-> [memory_dmp |-> TRUE, info_json |-> <<EndInfo>>]]
  /\ tdpc = [p \in Procs |-> "idle"]
  /\ listdir = [p \in Procs |-> <<>>]
  /\ td_i = [p \in Procs |-> 0]
  /\ json_obj = [p \in Procs |-> NoJson]
  /\ calls = <<>>
  /\ w_pc = "idle" /\ w_abort = FALSE /\ w_tpc = "none"
  /\ w_finished = FALSE /\ w_twake = 0 /\ w_swake = 0

Next ==
  \/ wfc_init \/ wfc_loop \/ wfc_wake \/ wfc_stop \/ wfc_dumped
  \/ wfc_dump_raised \/ wfc_resume \/ wfc_query \/ wfc_status_raised
  \/ wfc_status \/ wfc_error_raised \/ wfc_error
  \/ td_list(1) \/ td_mkdir(1) \/ td_dump(1) \/ td_json(1)
  \/ run_check \/ run_chkstop \/ run_pwake \/ run_wake
  \/ run_chkfin \/ run_call \/ run_setfin
  \/ Tick

Spec == Init /\ [][Next]_vars

(* A long run of wait_for_completion: critical timeout of 7 seconds, the   *)
(* dumps directory empty at the start, observed for LongNow ticks.         *)

InitLong ==
  /\ now = 0
  /\ TimerNew(0) /\ tpc = "none"
  /\ InitObs
  /\ timeout = 7
  /\ time_based \in BOOLEAN
  /\ time_to_sleep \in 1..LongInterval
  /\ number_of_dumps = 1
  /\ pc = "init" /\ swake = 0 /\ sec_counter = 0
  /\ status = "none" /\ error = "" /\ site = "none" /\ outcome = "none"
  /\ dumps = EmptyDir
  /\ tdpc = [p \in Procs |-> "idle"]
  /\ listdir = [p \in Procs |-> <<>>]
  /\ td_i = [p \in Procs |-> 0]
  /\ json_obj = [p \in Procs |-> NoJson]
  /\ calls = <<>>
  /\ w_pc = "idle" /\ w_abort = FALSE /\ w_tpc = "none"
  /\ w_finished = FALSE /\ w_twake = 0 /\ w_swake = 0

NextLong ==
  \/ wfc_init \/ wfc_loop \/ wfc_wake \/ wfc_stop \/ wfc_dumped
  \/ wfc_dump_raised \/ wfc_resume \/ wfc_query \/ wfc_status_raised
  \/ wfc_status \/ wfc_error_raised \/ wfc_error
  \/ td_list(1) \/ td_mkdir(1) \/ td_dump(1) \/ td_json(1)
  \/ run_check \/ run_chkstop \/ run_pwake \/ run_wake
  \/ run_chkfin \/ run_call \/ run_setfin
  \/ TickLong

SpecLong == InitLong /\ [][NextLong]_vars

(* wait_for_completion with its threads scheduled fairly: the supervisor's  *)
(* thread (its collaborators return), the watchdog's thread, and time.      *)

InitFair ==
  /\ now = 0
  /\ TimerNew(0) /\ tpc = "none"
  /\ InitObs
  /\ timeout \in 1..MaxTimeout
  /\ time_based \in BOOLEAN
  /\ time_to_sleep \in 1..MaxInterval
  /\ number_of_dumps = 1
  /\ pc = "init" /\ swake = 0 /\ sec_counter = 0
  /\ status = "none" /\ error = "" /\ site = "none" /\ outcome = "none"
  /\ dumps = EmptyDir
  /\ tdpc = [p \in Procs |-> "idle"]
  /\ listdir = [p \in Procs |-> <<>>]
  /\ td_i = [p \in Procs |-> 0]
  /\ json_obj = [p \in Procs |-> NoJson]
  /\ calls = <<>>
  /\ w_pc = "idle" /\ w_abort = FALSE /\ w_tpc = "none"
  /\ w_finished = FALSE /\ w_twake = 0 /\ w_swake = 0

NextFair ==
  \/ wfc_init \/ wfc_loop \/ wfc_wake \/ wfc_stop \/ wfc_dumped
  \/ wfc_dump_raised \/ wfc_resume \/ wfc_query \/ wfc_status_raised
  \/ wfc_status \/ wfc_error_raised \/ wfc_error
  \/ td_list(1) \/ td_mkdir(1) \/ td_dump(1) \/ td_json(1)
  \/ run_check \/ run_chkstop \/ run_pwake \/ run_wake
  \/ run_chkfin \/ run_call \/ run_setfin
  \/ TickFair \/ TickBeyond

\* the steps of the thread that runs wait_for_completion
SupervisorThread ==
  \/ wfc_init \/ wfc_loop \/ wfc_wake \/ wfc_stop \/ wfc_dumped
  \/ wfc_dump_raised \/ wfc_resume \/ wfc_query \/ wfc_status_raised
  \/ wfc_status \/ wfc_error_raised \/ wfc_error
  \/ td_list(1) \/ td_mkdir(1) \/ td_dump(1) \/ td_json(1)

\* the steps of the watchdog's thread
WatchdogThread ==
  \/ run_check \/ run_chkstop \/ run_pwake \/ run_wake
  \/ run_chkfin \/ run_call \/ run_setfin

SpecFair ==
  /\ InitFair /\ [][NextFair]_vars
  /\ WF_vars(SupervisorThread) /\ WF_vars(WatchdogThread)
  /\ WF_vars(TickFair) /\ WF_vars(TickBeyond)

(* ===================== snapshot store harness =========================== *)
(* Analyses (callers of take_mem_dump) that share one dumps directory, and *)
(* an external cleanup that removes snapshot directories between calls.    *)

\* names that may be in the directory at the start
InitNames == {str(1), str(9), <<0, 3>>, <<NonDigit>>}

NoCallRunning == \A p \in Procs : tdpc[p] = "idle"

storeFrame == <<now, timerVars, obsVars, supVars, waitVars>>

\* a caller starts a snapshot: analysis 1 a periodic one, the others a
\* terminal one
StoreCall(p) ==
  /\ Len(calls) < MaxSnaps
  /\ \A n \in DOMAIN dumps : IsNumeric(n) => int(n) < MaxIndex
  /\ take_mem_dump(p, IF p = 1 THEN TimeInfo(1) ELSE EndInfo)
  /\ UNCHANGED storeFrame

\* take_mem_dump has returned or raised: the caller is free again
StoreDone(p) ==
  /\ td_exit(p)
  /\ UNCHANGED storeFrame

\* an external cleanup removes one snapshot directory
Cleanup ==
  /\ NoCallRunning
  /\ \E n \in DOMAIN dumps :
       dumps' = [m \in DOMAIN dumps \ {n} |-> dumps[m]]
  /\ UNCHANGED <<tdpc, listdir, td_i, json_obj, calls, storeFrame>>

InitStore ==
  /\ now = 0
  /\ TimerNew(0) /\ tpc = "none"
  /\ InitObs
  /\ timeout = 1 /\ time_based = FALSE /\ time_to_sleep = 1
  /\ number_of_dumps = 1
  /\ pc = "idle" /\ swake = 0 /\ sec_counter = 0
  /\ status = "none" /\ error = "" /\ site = "none" /\ outcome = "none"
  /\ \E D \in SUBSET InitNames :
       dumps = [n \in D |-> [memory_dmp |-> TRUE, info_json |-> <<EndInfo>>]]
  /\ tdpc = [p \in Procs |-> "idle"]
  /\ listdir = [p \in Procs |-> <<>>]
  /\ td_i = [p \in Procs |-> 0]
  /\ json_obj = [p \in Procs |-> NoJson]
  /\ calls = <<>>
  /\ w_pc = "idle" /\ w_abort = FALSE /\ w_tpc = "none"
  /\ w_finished = FALSE /\ w_twake = 0 /\ w_swake = 0

NextStore ==
  \/ \E p \in Procs : StoreCall(p)
  \/ \E p \in Procs : td_list(p)
  \/ \E p \in Procs : td_mkdir(p)
  \/ \E p \in Procs : td_dump(p)
  \/ \E p \in Procs : td_json(p)
  \/ \E p \in Procs : StoreDone(p)
  \/ Cleanup

SpecStore == InitStore /\ [][NextStore]_vars

(* ===================== GuestManager.wait ================================ *)

\* what wait and its Timer leave alone
waitFrame == <<timerVars, obsVars, supVars, storeVars>>

\* guest.py 55-68: abort event; Timer(self.timeout, die) created and started
wait_init ==
  /\ w_pc = "init"
  /\ w_abort' = FALSE
  /\ w_finished' = FALSE
  /\ w_tpc' = "wait"
  /\ w_twake' = now + timeout * SecTicks
  /\ w_pc' = "loop"
  /\ UNCHANGED <<now, w_swake, waitFrame>>

\* guest.py 70-75: abort set -> raise CuckooGuestError; else go on to the
\* status query
wait_loop ==
  /\ w_pc = "loop"
  /\ w_pc' = IF w_abort THEN "raised" ELSE "query"
  /\ UNCHANGED <<now, w_abort, w_tpc, w_finished, w_twake, w_swake, waitFrame>>

\* guest.py 80: self.server.get_status() is sent
wait_query ==
  /\ w_pc = "query"
  /\ w_pc' = "rpc_status"
  /\ UNCHANGED <<now, w_abort, w_tpc, w_finished, w_twake, w_swake, waitFrame>>

\* variant of wait_status_raised: the error of get_status leaves wait
wait_status_propagated ==
  /\ w_pc = "rpc_status"
  /\ w_pc' = "raised"
  /\ UNCHANGED <<now, w_abort, w_tpc, w_finished, w_twake, w_swake, waitFrame>>

\* guest.py 83-87: get_status raised: pass, then sleep(1)
wait_status_raised ==
  /\ w_pc = "rpc_status"
  /\ w_pc' = "sleep"
  /\ w_swake' = now + SecTicks
  /\ UNCHANGED <<now, w_abort, w_tpc, w_finished, w_twake, waitFrame>>

\* guest.py 80-90: get_status returned st; wait is called with
\* CUCKOO_GUEST_INIT (guest.py 148): equal -> break, return True
wait_status ==
  /\ w_pc = "rpc_status"
  /\ \E st \in Statuses :
       IF st = "init"
         THEN w_pc' = "returned" /\ UNCHANGED w_swake
         ELSE w_pc' = "sleep" /\ w_swake' = now + SecTicks
  /\ UNCHANGED <<now, w_abort, w_tpc, w_finished, w_twake, waitFrame>>

\* guest.py 87: the sleep ends
wait_wake ==
  /\ w_pc = "sleep"
  /\ now >= w_swake
  /\ w_pc' = "loop"
  /\ UNCHANGED <<now, w_abort, w_tpc, w_finished, w_twake, w_swake, waitFrame>>

\* the threading.Timer started at guest.py 66-67: after self.timeout
\* seconds, unless finished is set, it calls die() (guest.py 62-63)
wait_timer_expire ==
  /\ w_tpc = "wait"
  /\ now >= w_twake \/ w_finished
  /\ w_tpc' = IF w_finished THEN "end" ELSE "call"
  /\ UNCHANGED <<now, w_pc, w_abort, w_finished, w_twake, w_swake, waitFrame>>

\* guest.py 62-63: die(): abort.set(); the Timer thread ends
wait_timer_die ==
  /\ w_tpc = "call"
  /\ w_abort' = TRUE
  /\ w_finished' = TRUE
  /\ w_tpc' = "end"
  /\ UNCHANGED <<now, w_pc, w_twake, w_swake, waitFrame>>

InitWait ==
  /\ now = 0
  /\ TimerNew(0) /\ tpc = "none"
  /\ InitObs
  /\ timeout \in 1..MaxTimeout
  /\ time_based = FALSE /\ time_to_sleep = 1
  /\ number_of_dumps = 1
  /\ pc = "idle" /\ swake = 0 /\ sec_counter = 0
  /\ status = "none" /\ error = "" /\ site = "none" /\ outcome = "none"
  /\ dumps = EmptyDir
  /\ tdpc = [p \in Procs |-> "idle"]
  /\ listdir = [p \in Procs |-> <<>>]
  /\ td_i = [p \in Procs |-> 0]
  /\ json_obj = [p \in Procs |-> NoJson]
  /\ calls = <<>>
  /\ w_pc = "init" /\ w_abort = FALSE /\ w_tpc = "none"
  /\ w_finished = FALSE /\ w_twake = 0 /\ w_swake = 0

NextWait ==
  \/ wait_init \/ wait_loop \/ wait_query \/ wait_status_raised \/ wait_status
  \/ wait_wake \/ wait_timer_expire \/ wait_timer_die
  \/ Tick

SpecWait == InitWait /\ [][NextWait]_vars

(* ===================== properties of wait =============================== *)

\* C3 (as claimed): the Timer of wait is cancelled before wait returns or
\* raises, so die() never runs once wait has ended.
C3_NoCallbackAfterWait ==
  [][(w_pc \in {"returned", "raised"}) => (w_abort' = w_abort)]_vars

(* ===================== properties of take_mem_dump ====================== *)

\* the largest element of a non-empty set of numbers
MaxOf(S) == CHOOSE x \in S : \A y \in S : x >= y
\* max(existing indices) + 1, or 1 when there is no snapshot directory
NextIndex(D) == IF D = {} THEN 1 ELSE MaxOf({int(n) : n \in D}) + 1

\* the directory of the index exists, still empty, whenever the capture
\* collaborator is about to be called; the metadata is written after that
C10_DirBeforeWrites ==
  /\ \A p \in Procs :
       /\ tdpc[p] = "dump" =>
            /\ str(td_i[p]) \in DOMAIN dumps
            /\ dumps[str(td_i[p])] = NewDumpDir
       /\ tdpc[p] = "json" => str(td_i[p]) \in DOMAIN dumps
  /\ \A k \in 1..Len(calls) :
       calls[k].res = "ok" => int(str(calls[k].i)) = calls[k].i

\* listing assigns max + 1 (or 1); mkdir creates exactly that directory
C10_Step ==
  \A p \in Procs :
    /\ (tdpc[p] = "list" /\ tdpc'[p] = "mkdir") =>
          td_i'[p] = NextIndex(DOMAIN dumps)
    /\ (tdpc[p] = "mkdir" /\ tdpc'[p] = "dump") =>
          /\ td_i[p] = NextIndex({listdir[p][k] : k \in 1..Len(listdir[p])})
          /\ DOMAIN dumps' = DOMAIN dumps \cup {str(td_i[p])}
          /\ \E n \in DOMAIN dumps' \ DOMAIN dumps : int(n) = td_i[p]

\* C10: take_mem_dump assigns the index max(existing indices) + 1, or 1 for
\* a directory without snapshots, and creates the directory of that index
\* before the capture collaborator is called and before the metadata is
\* written.
C10_IndexAndDirectoryFirst == []C10_DirBeforeWrites /\ [][C10_Step]_vars

\* completed snapshots with index 10 and 11 (after "9"), then one with
\* index 1 in the emptied directory
C10_Witness ==
  /\ Len(calls) = 3
  /\ calls[1].i = 10 /\ calls[2].i = 11 /\ calls[3].i = 1
  /\ \A k \in 1..3 : calls[k].res = "ok"
  /\ DOMAIN dumps = {str(1)} /\ dumps[str(1)].memory_dmp
  /\ dumps[str(1)].info_json # <<>>

(* ===================== properties of wait_for_completion ================ *)

\* the run ended through a terminal transition: the remote reported
\* Completed or Failed, or the abort flag was observed at guest.py 224
TerminalTransition == status \in {"completed", "failed"} \/ site = "timeout"
\* the take_mem_dump calls made with the terminal trigger
EndCalls == {k \in 1..Len(calls) : calls[k].p = 1 /\ calls[k].trigger = "End"}

\* C1 (as claimed): when the run has ended through a terminal transition,
\* exactly one snapshot with the terminal trigger has been taken, and it was
\* taken before the outcome reached the caller.
C1_OneTerminalSnapshot ==
  (pc = "done" /\ TerminalTransition) =>
     /\ Cardinality(EndCalls) = 1
     /\ \A k \in EndCalls : calls[k].res # "pending"

\* C2 (as claimed): when wait_for_completion has ended, on whatever path, the
\* watchdog has been cancelled (its finished flag is set).
C2_WatchdogCancelledAtExit == pc = "done" => finished

\* the supervisor is between resumableTimer.stop() and resumableTimer.resume()
InPeriodicCapture == (pc = "dump" /\ site = "periodic") \/ pc = "resume"

\* C8 (as claimed): while the supervisor has the watchdog paused for a
\* periodic capture, the watchdog does not set the abort flag.
C8_NoAbortWhilePaused == [][InPeriodicCapture => abort' = abort]_vars

(* ===================== properties of the timer ========================== *)

Abs(x) == IF x < 0 THEN 0 - x ELSE x
HasOp(o) == \E i \in 1..Len(hist) : hist[i].op = o

\* C4: a timer cancelled while its counted elapsed time is below the budget
\* never invokes its callback, whatever the interleaving and whatever
\* pauses and resumes came before the cancel.
C4_CancelBeforeBudgetNeverFires == cancelEarly => fired = 0

\* a paused-and-resumed timer was cancelled early, its thread has ended and
\* the clock has passed the original budget
C4_Witness ==
  /\ cancelEarly /\ tpc = "end" /\ now > interval
  /\ Len(hist) >= 3 /\ hist[1].op = "stop" /\ hist[2].op = "resume"
  /\ hist[3].op = "cancel" /\ hist[3].t >= 1

\* C5 (as claimed): once cancel() has returned no callback is invoked.
C5_NoCallbackAfterCancel == [][cancelled => fired' = fired]_vars

\* C6: the callback is invoked at most once per start, and once it has been
\* invoked the elapsed counter t no longer advances.
C6_FiresAtMostOnce == [][fired' <= 1 /\ (fired >= 1 => t' = t)]_vars

\* the callback ran, the thread ended, and the caller kept calling the API
C6_Witness ==
  /\ fired = 1 /\ tpc = "end" /\ Len(hist) >= 2
  /\ hist[Len(hist)].op = "resume" /\ hist[Len(hist)].t >= interval
  /\ hist[Len(hist) - 1].op = "stop" /\ hist[Len(hist) - 1].t >= interval

\* the timer is at the moment of expiry: the callback has just been invoked
AtExpiry == tpc = "setfin" /\ fired = 1
\* counted elapsed minus (wall clock since start minus paused time)
CountError == t - (now - pausedTicks)

\* C7 (as claimed): at expiry the counted elapsed time is within one tick of
\* wall-clock time minus paused time, for every pause/resume sequence.
C7_ElapsedWithinOneTick == AtExpiry => Abs(CountError) <= 1

\* C7 (amended): at expiry the counted elapsed time differs from wall-clock
\* time minus paused time by at most one tick per pause period.
C7_ElapsedWithinOneTickPerPause == AtExpiry => Abs(CountError) <= nPause

\* expiry after two pause periods during which wall-clock time passed
C7_Witness == AtExpiry /\ nPause = 2 /\ pausedTicks >= 2 /\ Abs(CountError) = 2

\* calls i, i+1, i+2 are pause(), pause(), resume() on a running timer
PausePauseResume(i) ==
  /\ i + 2 <= Len(hist)
  /\ hist[i].op = "stop" /\ hist[i + 1].op = "stop" /\ hist[i + 2].op = "resume"
  /\ (i = 1 \/ hist[i - 1].op = "resume")

\* C9: pause() on a paused timer and resume() on a running timer change
\* nothing; after pause(), pause(), resume() the timer is running and goes
\* on counting from its pre-pause elapsed value (the tick that was being
\* slept when pause() was called may still have been counted).
C9_AfterPPR ==
  \A i \in 1..Len(hist) :
    PausePauseResume(i) =>
      /\ (i + 2 = Len(hist) => ~stopev)
      /\ hist[i + 2].t \in {hist[i].t, hist[i].t + 1}
      /\ t >= hist[i].t
C9_RedundantCall == (CallStop /\ stopev) \/ (CallResume /\ ~stopev)
C9_PauseResumeIdempotent ==
  []C9_AfterPPR /\ [][C9_RedundantCall => UNCHANGED timerVars]_vars

\* pause(), pause(), resume() at a non-zero elapsed value, after which the
\* timer has counted on
C9_Witness ==
  \E i \in 1..Len(hist) :
    /\ PausePauseResume(i) /\ i + 2 = Len(hist)
    /\ hist[i].t >= 1 /\ t > hist[i + 2].t /\ pausedTicks >= 1

(* ===================== further properties of wait_for_completion ======== *)

\* the run started with an empty dumps directory: every directory in it was
\* created by one of the run's take_mem_dump calls
StartedEmpty ==
  DOMAIN dumps = {str(calls[k].i) : k \in {j \in 1..Len(calls) : calls[j].i > 0}}
\* caller p holds an index computed from the listing
HasIndex(p) == tdpc[p] \in {"mkdir", "dump", "json", "ret"}

\* C11: in a run that starts with an empty dumps directory the k-th snapshot
\* taken gets index k, for periodic and terminal snapshots alike: the indices
\* are 1, 2, 3, ... in the order taken.
C11_IndicesGaplessFromOne ==
  StartedEmpty =>
    /\ \A k \in 1..Len(calls) :
         /\ calls[k].i \in {0, k}
         /\ calls[k].i = 0 => k = Len(calls)
    /\ HasIndex(1) => td_i[1] = Len(calls)

\* two periodic snapshots and the terminal one were taken: 1, 2, 3
C11_Witness ==
  /\ StartedEmpty /\ pc = "done" /\ outcome = "returned"
  /\ Len(calls) = 3
  /\ \A k \in 1..3 : calls[k].i = k /\ calls[k].res = "ok"
  /\ calls[1].trigger = "Time" /\ calls[2].trigger = "Time"
  /\ calls[3].trigger = "End"
  /\ DOMAIN dumps = {str(1), str(2), str(3)}

(* ===================== further properties of the snapshot store ========= *)

\* C12 (as claimed): an index once assigned is never assigned again in the
\* same store, whatever directories an external cleanup removes between two
\* take_mem_dump calls.
C12_IndexNeverAssignedAgain ==
  \A k1, k2 \in 1..Len(calls) :
    (k1 < k2 /\ calls[k1].i > 0) => calls[k1].i # calls[k2].i

\* a directory with index x or a higher one is in the store
IndexAtLeast(x) == \E n \in DOMAIN dumps : IsNumeric(n) /\ int(n) >= x

\* the step in which caller p creates its directory: its index was not
\* assigned before, unless no directory of that or a higher index is left
C12_Step ==
  \A p \in Procs :
    (tdpc[p] = "mkdir" /\ tdpc'[p] = "dump") =>
       /\ ~IndexAtLeast(td_i[p])
       /\ \A k \in 1..Len(calls) : calls[k].i = td_i[p] => ~IndexAtLeast(td_i[p])

\* C12 (amended): an index once assigned is not assigned again as long as a
\* directory with that index or a higher one is in the store; cleanup of
\* other directories causes no reuse.
C12_NoReuseWhileTopRemains == [][C12_Step]_vars

\* after 2 and 3 were assigned, directories 1 and 2 were removed and the next
\* snapshot got the fresh index 4
C12_Witness ==
  /\ Len(calls) = 3
  /\ calls[1].i = 2 /\ calls[2].i = 3 /\ calls[3].i = 4
  /\ \A k \in 1..3 : calls[k].res = "ok"
  /\ DOMAIN dumps = {str(3), str(4)}

\* some take_mem_dump call of the run has raised
SnapshotRaised == \E k \in 1..Len(calls) : calls[k].res = "raised"

\* a raised snapshot is the last call of the run, and the run then ends with
\* that error
C13_RaisedIsFinal ==
  \A k \in 1..Len(calls) :
    calls[k].res = "raised" =>
      /\ k = Len(calls)
      /\ pc \in {"dump", "done"}
      /\ pc = "done" => outcome = "snapshot_error"

\* once take_mem_dump has raised the supervisor does nothing but end the run
\* with the snapshot error: no counter increment, no query, no other outcome
C13_Step ==
  SnapshotRaised =>
    /\ sec_counter' = sec_counter /\ status' = status
    /\ \/ pc' = pc /\ outcome' = outcome
       \/ pc = "dump" /\ pc' = "done" /\ outcome' = "snapshot_error"

\* C13: a failure of the listing, the directory creation or the capture
\* collaborator in any snapshot, periodic or terminal, propagates out of
\* take_mem_dump and ends the supervisor's run at once with that error.
C13_SnapshotFailurePropagates == []C13_RaisedIsFinal /\ [][C13_Step]_vars

\* the second periodic snapshot failed in the capture collaborator, after its
\* directory was created, and the run ended with that error
C13_Witness ==
  /\ pc = "done" /\ outcome = "snapshot_error"
  /\ Len(calls) = 2
  /\ calls[1].trigger = "Time" /\ calls[1].res = "ok"
  /\ calls[2].trigger = "Time" /\ calls[2].res = "raised" /\ calls[2].i = 2
  /\ ~dumps[str(2)].memory_dmp

\* C14 (as claimed): a communication error raised by get_status or by
\* get_error never reaches the caller of wait_for_completion.
C14_QueryErrorsAbsorbed == outcome # "rpc_error"

(* ===================== further properties of wait ======================= *)

\* how one step of wait may end it, and what follows the abort flag
C15_Step ==
  \* success only as the result of the query of this iteration
  /\ (w_pc' = "returned" /\ w_pc # "returned") => w_pc = "rpc_status"
  \* the timeout error only at the iteration check, with the flag set
  /\ (w_pc' = "raised" /\ w_pc # "raised") => (w_pc = "loop" /\ w_abort)
  \* the first iteration check after the flag is set raises
  /\ (w_pc = "loop" /\ w_abort /\ w_pc' # w_pc) => w_pc' = "raised"
  \* a query that raises, or returns another status, leads to the sleep
  /\ (w_pc = "rpc_status" /\ w_pc' # w_pc) => w_pc' \in {"returned", "sleep"}
  \* with the flag set, only a wait that has already passed its iteration
  \* check sends a query: one further query at most
  /\ (w_abort /\ w_pc # "query") => w_pc' # "query"

\* C15: wait ends only by returning success in an iteration whose query
\* returned the target status, or by raising the timeout error at the first
\* iteration check after the abort flag was set; a raising query never ends
\* it, and at most one further query is made once the flag is set.
C15_WaitEndsTwoWays == [][C15_Step]_vars

\* the timeout error was raised after a last sleep that began when the flag
\* was already set: one query completed after the flag
C15_Witness ==
  /\ w_pc = "raised" /\ w_abort /\ w_tpc = "end"
  /\ w_swake - SecTicks >= w_twake

(* ===================== properties of the periodic cadence =============== *)

\* periodic snapshots taken (calls of take_mem_dump with the Time trigger)
PeriodicCalls == Cardinality({j \in 1..Len(calls) : calls[j].trigger = "Time"})

\* iterations whose periodic snapshot, if due, has been started
IterationsDone == IF pc = "stop" THEN sec_counter - 1 ELSE sec_counter

\* after n iterations floor(n / k) periodic snapshots were taken, none when
\* periodic capture is disabled
C16_Cadence ==
  PeriodicCalls = IF time_based THEN IterationsDone \div time_to_sleep ELSE 0

\* interval 2, critical timeout 7, Completed reported in iteration 6: no
\* timeout error, and unless the terminal snapshot fails the run returns with
\* the snapshots 1 to 4, three periodic and one terminal
C16_Scenario ==
  (/\ time_based /\ time_to_sleep = 2 /\ timeout = 7
   /\ status = "completed" /\ sec_counter = 6 /\ pc = "done") =>
      /\ outcome \in {"returned", "snapshot_error"}
      /\ outcome = "snapshot_error" => calls[Len(calls)].res = "raised"
      /\ outcome = "returned" =>
           /\ DOMAIN dumps = {str(1), str(2), str(3), str(4)}
           /\ \A j \in 1..3 :
                /\ dumps[str(j)].memory_dmp
                /\ dumps[str(j)].info_json = <<TimeInfo(2)>>
           /\ dumps[str(4)].memory_dmp
           /\ dumps[str(4)].info_json = <<EndInfo>>

\* C16: with periodic capture enabled and interval k a periodic snapshot is
\* taken in exactly the iterations whose cadence counter (1 in the first) is
\* a multiple of k, floor(n / k) of them after n iterations; with k = 2,
\* critical timeout 7 and Completed reported in iteration 6 the run ends in
\* success with snapshots 1 to 4 and no timeout error.
C16_PeriodicCadence == C16_Cadence /\ C16_Scenario

\* the scenario has run to its end: four snapshots, success
C16_Witness ==
  /\ time_based /\ time_to_sleep = 2 /\ timeout = 7
  /\ status = "completed" /\ sec_counter = 6
  /\ pc = "done" /\ outcome = "returned"
  /\ PeriodicCalls = 3 /\ Len(calls) = 4
  /\ DOMAIN dumps = {str(1), str(2), str(3), str(4)}

(* ===================== the critical timeout ============================= *)

\* the remote has reported Completed or Failed
RemoteEnded == status \in {"completed", "failed"}

\* the critical-timeout error was raised and the store holds the terminal
\* snapshot, with index 1, and nothing else
TimedOutWithOneSnapshot ==
  /\ pc = "done" /\ outcome = "timeout_error"
  /\ DOMAIN dumps = {str(1)}
  /\ dumps[str(1)].memory_dmp
  /\ dumps[str(1)].info_json = <<EndInfoAt(sec_counter)>>

\* C17: if the remote never reports Completed or Failed and periodic capture
\* is disabled, the supervisor eventually raises the critical-timeout error
\* (threads scheduled fairly, the terminal snapshot not failing), and then
\* exactly one snapshot directory, index 1, exists, with the terminal trigger.
C17_TimeoutEventually ==
  ~time_based => <>(RemoteEnded \/ SnapshotRaised \/ TimedOutWithOneSnapshot)

\* the remote stayed Running, the run ended with the timeout error
C17_Witness ==
  /\ ~time_based /\ status = "running"
  /\ TimedOutWithOneSnapshot
  /\ Len(calls) = 1 /\ calls[1].trigger = "End"

(* ===================== the metadata of a snapshot ======================= *)

\* the metadata documents written so far
Written == {n \in DOMAIN dumps : dumps[n].info_json # <<>>}

\* C18 (as claimed): the metadata of each snapshot records the trigger and an
\* elapsed field that holds the cadence counter for a periodic snapshot and
\* is absent for every terminal snapshot.
C18_ElapsedOnlyForPeriodic ==
  \A n \in Written :
    LET doc == dumps[n].info_json[1] IN
      /\ doc.trigger.name \in {"Time", "End"}
      /\ doc.trigger.name = "Time" => doc.time # <<>>
      /\ doc.trigger.name = "End" => doc.time = <<>>

(* ===================== the failure of the analysis ====================== *)

\* the terminal snapshot is the last call made and it was written
TerminalSnapshotTaken ==
  /\ Len(calls) > 0
  /\ calls[Len(calls)].trigger = "End" /\ calls[Len(calls)].res = "ok"

\* C19 (as claimed): when the remote reports Failed, the error raised to the
\* caller carries the message returned by get_error, or "unknown error" when
\* get_error returns nothing, and it is raised only after the terminal
\* snapshot has been taken (a snapshot that fails raises its own error).
C19_FailedRaisesAfterSnapshot ==
  (status = "failed" /\ pc = "done" /\ ~SnapshotRaised) =>
     /\ outcome = "failed_error"
     /\ error \in (Errors \ {""}) \cup {"unknown error"}
     /\ TerminalSnapshotTaken

(* ===================== the cadence counter ============================== *)

\* the supervisor leaves the sleep of an iteration
LeavesSleep == pc = "sleep" /\ pc' # pc

\* what a step does to the cadence counter and to the periodic decision
C20_Step ==
  \* zero at loop entry
  /\ (pc = "init" /\ pc' # pc) => sec_counter' = 0
  \* exactly one more in each iteration, at the end of its sleep, whatever
  \* the status query of the iteration before did
  /\ LeavesSleep => sec_counter' = sec_counter + 1
  /\ ~LeavesSleep => sec_counter' = sec_counter
  /\ (pc \in {"loop", "rpc_status"} /\ pc' # pc /\ status' \notin {"completed", "failed"} /\ ~abort)
        => pc' \in {"loop", "sleep"}
  \* pausing, resuming and the watchdog's own counting leave it unchanged
  /\ (stopev' # stopev \/ (t' # t /\ pc # "init")) => sec_counter' = sec_counter
  \* the periodic snapshot is decided by the counter alone
  /\ LeavesSleep =>
       (pc' = "stop" <=> (time_based /\ sec_counter' % time_to_sleep = 0))
  /\ (pc' = "stop" /\ pc # "stop") => LeavesSleep

\* C20: the cadence counter starts at zero at loop entry and grows by exactly
\* one per loop iteration, also in iterations whose status query fails;
\* pausing or resuming the watchdog leaves it unchanged; the decision to take
\* a periodic snapshot depends on the cadence counter only, never on the
\* watchdog's elapsed value.
C20_CadenceIndependent == [][C20_Step]_vars

\* the second periodic snapshot is decided while the watchdog, paused during
\* the first one, has counted less than two seconds
C20_Witness ==
  /\ pc = "stop" /\ time_based /\ time_to_sleep = 1
  /\ sec_counter = 2 /\ pausedTicks > 0
  /\ t < 2 * SecTicks

(* ===================== concurrent callers of the store ================== *)

\* C21 (as claimed): two analyses that take snapshots concurrently into the
\* same base directory do not race on the index: no two running calls hold
\* the same index, and a call that is about to create its directory finds
\* the name free, so that both calls complete without error.
C21_NoIndexRace ==
  /\ \A p, q \in Procs :
       (p # q /\ HasIndex(p) /\ HasIndex(q)) => td_i[p] # td_i[q]
  /\ \A p \in Procs :
       tdpc[p] = "mkdir" => str(td_i[p]) \notin DOMAIN dumps

(* ===================== the configured maximum number of dumps =========== *)

\* snapshots of the run that were written completely
SnapshotsTaken == Cardinality({j \in 1..Len(calls) : calls[j].res = "ok"})

\* a periodic snapshot is due in the iteration whose sleep ends in this step
PeriodicDue ==
  /\ pc = "sleep" /\ pc' # pc
  /\ time_based /\ sec_counter' % time_to_sleep = 0

\* a due periodic snapshot is started whatever number of snapshots exists,
\* and number_of_dumps stops no terminal snapshot either
C22_Step ==
  /\ PeriodicDue => pc' = "stop"
  /\ (pc = "stop" /\ pc' # pc) =>
        /\ pc' = "dump" /\ Len(calls') = Len(calls) + 1
        /\ calls'[Len(calls')].trigger = "Time"
  /\ number_of_dumps' = number_of_dumps

\* C22: the configured maximum number of snapshots is read but never limits
\* capture: a periodic snapshot is taken at every multiple of the interval
\* regardless of how many snapshots exist, so the snapshots of one run can
\* exceed the maximum.
C22_MaximumNeverLimits == [][C22_Step]_vars

\* a run has ended with more snapshots than the configured maximum, the last
\* periodic one started when the maximum was already reached
C22_Witness ==
  /\ pc = "done" /\ outcome = "returned"
  /\ PeriodicCalls >= 2
  /\ SnapshotsTaken > number_of_dumps + 1

(* ===================== the end of the watchdog thread =================== *)

\* C23 (as claimed): after wait_for_completion has ended on any path the
\* watchdog thread it started eventually terminates, also when it was left
\* paused because a periodic capture raised between stop() and resume().
C23_WatchdogTerminates == (pc = "done") ~> (tpc = "end")

(* ===================== directories and their metadata =================== *)

\* C24 (as claimed): between take_mem_dump calls, failed ones included, every
\* snapshot directory of the store contains its metadata document; a call
\* whose capture collaborator fails leaves no directory behind and consumes
\* no index.
C24_EveryDirectoryHasMetadata ==
  NoCallRunning =>
    /\ \A n \in DOMAIN dumps : dumps[n].info_json # <<>>
    /\ \A k \in 1..Len(calls) :
         (calls[k].res = "raised" /\ calls[k].i > 0) =>
            str(calls[k].i) \notin DOMAIN dumps

====
